---------------------------- MODULE Spec2Model ----------------------------
(***************************************************************************)
(* Model of the useMqtt composable of src/src/App.vue (lines 419-696) and  *)
(* of the clearMessages action of the form (lines 71-74).                  *)
(*                                                                         *)
(* The program state is the nine refs of useMqtt.  Around it the model     *)
(* keeps the environment the handlers run in: the timers armed in the      *)
(* event loop, the state of every broker client handle created by          *)
(* mqtt.connect, and the subscribe/unsubscribe requests whose callbacks    *)
(* are still in flight.  Text is a sequence of one-character strings, so   *)
(* that JSON.parse and JSON.stringify are computed and not assumed.        *)
(***************************************************************************)
EXTENDS Integers, Sequences, FiniteSets

(***************************************************************************)
(* Bounds of the model.                                                    *)
(***************************************************************************)
\* connect() calls that start an attempt (pass the guard of line 451)
MaxAttempts == 2
\* subscribe/unsubscribe requests in flight at the same time, under Spec
MaxPending == 2
\* records kept in the message log, under Spec
MaxLog == 1
\* the same two bounds under SpecWindow
MaxWindowPending == 1
MaxWindowLog == 1
\* records kept in the message log, under SpecData
MaxDataLog == 2
\* records kept in the message log, and requests in flight, under SpecLog
MaxOrderLog == 3
MaxOrderPending == 1

(***************************************************************************)
(* Text and JSON values.                                                   *)
(*                                                                         *)
(* A JavaScript value is a record with a tag t: "str" (text s), "num"      *)
(* (integer n), "bool" (n = 1 for true), "null", or "obj" (f is the        *)
(* sequence of members in insertion order, each a key k and a value v).    *)
(* The subset covers objects, strings with the escapes \" \\ \/, integers, *)
(* true, false and null; arrays, fractions and exponents are outside it    *)
(* and no input of the model uses them.                                    *)
(***************************************************************************)
JStr(s) == [t |-> "str", n |-> 0, s |-> s, f |-> <<>>]

JNum(n) == [t |-> "num", n |-> n, s |-> <<>>, f |-> <<>>]

JBool(b) == [t |-> "bool", n |-> IF b THEN 1 ELSE 0, s |-> <<>>, f |-> <<>>]

JNull == [t |-> "null", n |-> 0, s |-> <<>>, f |-> <<>>]

JObj(members) == [t |-> "obj", n |-> 0, s |-> <<>>, f |-> members]

Member(k, v) == [k |-> k, v |-> v]

Digits == <<"0", "1", "2", "3", "4", "5", "6", "7", "8", "9">>

IsDigit(c) == \E d \in 1..10 : Digits[d] = c

DigitVal(c) == (CHOOSE d \in 1..10 : Digits[d] = c) - 1

IsWs(c) == c \in {" ", "\n", "\t", "\r"}

ParseFail == [ok |-> FALSE, v |-> JNull, i |-> 0]

ParseOk(v, i) == [ok |-> TRUE, v |-> v, i |-> i]

RECURSIVE SkipWs(_, _)
\* index of the first character of s at or after i that is not white space
SkipWs(s, i) ==
  IF i <= Len(s) /\ IsWs(s[i]) THEN SkipWs(s, i + 1) ELSE i

RECURSIVE ScanString(_, _, _)
\* the text of a JSON string whose opening quote precedes position i
ScanString(s, i, acc) ==
  IF i > Len(s) THEN ParseFail
  ELSE IF s[i] = "\"" THEN ParseOk(JStr(acc), i + 1)
  ELSE IF s[i] = "\\"
    THEN IF i + 1 <= Len(s) /\ s[i + 1] \in {"\"", "\\", "/"}
           THEN ScanString(s, i + 2, Append(acc, s[i + 1]))
           ELSE ParseFail
  ELSE ScanString(s, i + 1, Append(acc, s[i]))

RECURSIVE ScanDigits(_, _, _)
\* the value of the digits of s from position i on, continuing from acc
ScanDigits(s, i, acc) ==
  IF i <= Len(s) /\ IsDigit(s[i])
    THEN ScanDigits(s, i + 1, 10 * acc + DigitVal(s[i]))
    ELSE ParseOk(JNum(acc), i)

\* a JSON integer at position i: an optional minus, then 0 or a digit string
\* without a leading zero
ParseNumber(s, i) ==
  LET neg == s[i] = "-"
      j   == IF neg THEN i + 1 ELSE i
      r   == IF j > Len(s) \/ ~IsDigit(s[j]) THEN ParseFail
             ELSE IF s[j] = "0" THEN ParseOk(JNum(0), j + 1)
             ELSE ScanDigits(s, j, 0)
  IN  IF r.ok /\ neg THEN ParseOk(JNum(0 - r.v.n), r.i) ELSE r

\* the word w (true, false, null) at position i of s
ParseLiteral(s, i, w, v) ==
  IF i + Len(w) - 1 <= Len(s) /\ SubSeq(s, i, i + Len(w) - 1) = w
    THEN ParseOk(v, i + Len(w))
    ELSE ParseFail

RECURSIVE ObjSet(_, _, _)
\* obj[k] = v on the member list of an object: a key that is present keeps
\* its place and takes the new value, a new key goes to the end
ObjSet(members, k, v) ==
  IF members = <<>> THEN <<Member(k, v)>>
  ELSE IF Head(members).k = k THEN <<Member(k, v)>> \o Tail(members)
  ELSE <<Head(members)>> \o ObjSet(Tail(members), k, v)

RECURSIVE ParseValue(_, _)
RECURSIVE ParseMembers(_, _, _)
\* the members of an object from position i on, up to the closing brace
ParseMembers(s, i, acc) ==
  LET i1  == SkipWs(s, i)
      key == IF i1 <= Len(s) /\ s[i1] = "\"" THEN ScanString(s, i1 + 1, <<>>)
             ELSE ParseFail
      i2  == SkipWs(s, key.i)
      val == IF key.ok /\ i2 <= Len(s) /\ s[i2] = ":" THEN ParseValue(s, i2 + 1)
             ELSE ParseFail
      now == ObjSet(acc, key.v.s, val.v)
  IN  IF ~val.ok \/ val.i > Len(s) THEN ParseFail
      ELSE IF s[val.i] = "," THEN ParseMembers(s, val.i + 1, now)
      ELSE IF s[val.i] = "}" THEN ParseOk(JObj(now), val.i + 1)
      ELSE ParseFail

\* a JSON object whose opening brace is at position i
ParseObject(s, i) ==
  LET i1 == SkipWs(s, i + 1)
  IN  IF i1 <= Len(s) /\ s[i1] = "}" THEN ParseOk(JObj(<<>>), i1 + 1)
      ELSE ParseMembers(s, i1, <<>>)

\* a JSON value with the white space around it, from position i on
ParseValue(s, i) ==
  LET i1 == SkipWs(s, i)
      r  == IF i1 > Len(s) THEN ParseFail
            ELSE IF s[i1] = "{" THEN ParseObject(s, i1)
            ELSE IF s[i1] = "\"" THEN ScanString(s, i1 + 1, <<>>)
            ELSE IF s[i1] = "-" \/ IsDigit(s[i1]) THEN ParseNumber(s, i1)
            ELSE IF s[i1] = "t" THEN ParseLiteral(s, i1, <<"t", "r", "u", "e">>, JBool(TRUE))
            ELSE IF s[i1] = "f"
              THEN ParseLiteral(s, i1, <<"f", "a", "l", "s", "e">>, JBool(FALSE))
            ELSE IF s[i1] = "n" THEN ParseLiteral(s, i1, <<"n", "u", "l", "l">>, JNull)
            ELSE ParseFail
  IN  IF r.ok THEN ParseOk(r.v, SkipWs(s, r.i)) ELSE ParseFail

\* JSON.parse(s): ok is FALSE where JSON.parse throws
JSONParse(s) ==
  LET r == ParseValue(s, 1)
  IN  IF r.ok /\ r.i = Len(s) + 1 THEN r ELSE ParseFail

RECURSIVE DecStr(_)
\* the decimal digits of a natural number
DecStr(n) ==
  IF n < 10 THEN <<Digits[n + 1]>> ELSE DecStr(n \div 10) \o <<Digits[(n % 10) + 1]>>

\* String(n) of an integer
NumStr(n) == IF n < 0 THEN <<"-">> \o DecStr(0 - n) ELSE DecStr(n)

RECURSIVE Escape(_)
\* the characters of a string as JSON.stringify writes them between quotes
Escape(s) ==
  IF s = <<>> THEN <<>>
  ELSE IF Head(s) \in {"\"", "\\"} THEN <<"\\", Head(s)>> \o Escape(Tail(s))
  ELSE <<Head(s)>> \o Escape(Tail(s))

Quote(s) == <<"\"">> \o Escape(s) \o <<"\"">>

RECURSIVE JSONStringify(_)
RECURSIVE StringifyMembers(_)
\* the members of an object, comma separated
StringifyMembers(members) ==
  IF members = <<>> THEN <<>>
  ELSE Quote(Head(members).k) \o <<":">> \o JSONStringify(Head(members).v)
         \o (IF Len(members) > 1 THEN <<",">> ELSE <<>>)
         \o StringifyMembers(Tail(members))

\* JSON.stringify(v), the compact encoding
JSONStringify(v) ==
  IF v.t = "str" THEN Quote(v.s)
  ELSE IF v.t = "num" THEN NumStr(v.n)
  ELSE IF v.t = "bool" THEN (IF v.n = 1 THEN <<"t", "r", "u", "e">>
                             ELSE <<"f", "a", "l", "s", "e">>)
  ELSE IF v.t = "null" THEN <<"n", "u", "l", "l">>
  ELSE <<"{">> \o StringifyMembers(v.f) \o <<"}">>

\* String(v)
StringOf(v) ==
  IF v.t = "str" THEN v.s
  ELSE IF v.t = "obj"
    THEN <<"[", "o", "b", "j", "e", "c", "t", " ", "O", "b", "j", "e", "c", "t", "]">>
  ELSE JSONStringify(v)

\* typeof v === 'object' (null included)
TypeofObject(v) == v.t \in {"obj", "null"}


\* a value that passes if (v): not null, "", 0 or false
Truthy(v) ==
  ~(v.t = "null" \/ (v.t = "str" /\ v.s = <<>>) \/ (v.t \in {"num", "bool"} /\ v.n = 0))

RECURSIVE Spread(_, _)
\* { ...a, ...b } on member lists
Spread(a, b) ==
  IF b = <<>> THEN a ELSE Spread(ObjSet(a, Head(b).k, Head(b).v), Tail(b))

(***************************************************************************)
(* A JavaScript Set of topics: a sequence without repetition, in insertion *)
(* order (the order forEach and the template iterate in).                  *)
(***************************************************************************)
SetHas(set, t) == \E i \in 1..Len(set) : set[i] = t

\* mutant of SetAdd: the set kept as an array, add as push
SetAddPush(set, t) == Append(set, t)

\* mutant of SetAdd: the callback does not add
SetAddNever(set, t) == set

SetAdd(set, t) == IF SetHas(set, t) THEN set ELSE Append(set, t)

\* mutant of SetDelete: clear() in place of delete(t)
SetDeleteAll(set, t) == <<>>

SetDelete(set, t) == SelectSeq(set, LAMBDA x : x # t)

Count(set, t) == Cardinality({i \in 1..Len(set) : set[i] = t})

(***************************************************************************)
(* The inputs of the model.                                                *)
(***************************************************************************)
Topics == {"gps/location", "gps/data"}

\* the default of useMqtt's brokerUrl option
DefaultBrokerUrl == "ws://localhost:8083/mqtt"

\* the broker of the form
FormBrokerUrl == "ws://202.51.82.87:9001"

\* a URL without a protocol: mqtt.connect throws on it
BadBrokerUrl == "202.51.82.87:9001"

\* the url argument of connect; "" stands for every falsy url (null, "")
UrlArgs == {"", FormBrokerUrl, BadBrokerUrl}

Alice == <<"a", "l", "i", "c", "e">>

\* the opts argument of connect: null, or the clientOptions of handleConnect
OptArgs == {JNull, JObj(<<Member(<<"u", "s", "e", "r", "n", "a", "m", "e">>, JStr(Alice))>>)}

UsernameKey == <<"u", "s", "e", "r", "n", "a", "m", "e">>

ClientIdKey == <<"c", "l", "i", "e", "n", "t", "I", "d">>

Bob == <<"b", "o", "b">>

Device == <<"g", "p", "s", "1">>

\* the opts argument of connect, SpecOptions: null, or the clientOptions
\* handleConnect builds from the fields of the form that are filled in
ConnectOptArgs ==
  {JNull,
   JObj(<<>>),
   JObj(<<Member(UsernameKey, JStr(Alice))>>),
   JObj(<<Member(UsernameKey, JStr(Bob))>>),
   JObj(<<Member(ClientIdKey, JStr(Device))>>)}

\* the topic argument of subscribe and unsubscribe after the Array.isArray
\* normalisation: one topic, or an array of topics
TopicArgs == {<<t>> : t \in Topics} \cup {<<"gps/location", "gps/data">>}

QosMember(q) == Member(<<"q", "o", "s">>, JNum(q))

RetainMember(b) == Member(<<"r", "e", "t", "a", "i", "n">>, JBool(b))

\* the options argument of subscribe
SubOptArgs == {<<>>, <<QosMember(1)>>}

\* the options argument of publish
PubOptArgs == {<<>>, <<QosMember(1)>>, <<RetainMember(TRUE)>>}

PayloadX1 == <<"{", "\"", "x", "\"", ":", "1", "}">>

PayloadHello == <<"h", "e", "l", "l", "o">>

PayloadLatLon ==
  <<"{", "\"", "l", "a", "t", "\"", ":", "1", ",", "\"", "l", "o", "n", "\"", ":", "2", "}">>

PayloadSpaced == <<"{", " ", "\"", "x", "\"", ":", " ", "-", "7", " ", "}", "\n">>

PayloadQuoted == <<"\"", "h", "i", "\"">>

PayloadCut == <<"{", "\"", "x", "\"", ":", "1">>

PayloadNumber == <<"1", "2">>

PayloadNull == <<"n", "u", "l", "l">>

PayloadEmptyObject == <<"{", "}">>

PayloadNested ==
  <<"{", "\"", "p", "\"", ":", "{", "\"", "o", "k", "\"", ":", "t", "r", "u", "e", "}", "}">>

\* payloads that are JSON texts
JsonPayloads ==
  {PayloadX1, PayloadLatLon, PayloadSpaced, PayloadQuoted, PayloadNumber, PayloadNull,
   PayloadEmptyObject, PayloadNested}

\* payloads that are not: plain text, a cut object, a number with a leading zero
PayloadLeadingZero == <<"0", "1">>

TextPayloads == {PayloadHello, PayloadCut, PayloadLeadingZero}

MessageA1 == JObj(<<Member(<<"a">>, JNum(1))>>)

MessageRaw == JStr(<<"r", "a", "w">>)

MessageNested ==
  JObj(<<Member(<<"i", "d">>, JStr(<<"g", "\"", "1">>)), Member(<<"o", "k">>, JBool(TRUE))>>)

\* the message argument of publish
Messages == {MessageA1, MessageRaw, MessageNested, JNum(25), JNull}


(***************************************************************************)
(* The state.                                                              *)
(***************************************************************************)
VARIABLES
  client,                \* client.value: the handle held, 0 for null
  isConnected,
  isConnecting,
  error,                 \* "null", or the kind of the Error held
  messages,              \* the log, newest first
  subscriptions,         \* the Set of topics
  currentBrokerUrl,
  currentClientOptions,  \* the member list of the options object
  connectionTimeout,     \* connectionTimeout.value: a timer id, 0 for null
  armed,                 \* the timers of setTimeout that are neither fired nor cleared
  lib,                   \* the state of every handle inside the broker client library
  pending,               \* requests with a callback that has not run yet
  attempts,              \* connect() calls that passed the guard so far
  window,                \* the 15 seconds after each attempt, and what they saw
                         \* (kept by SpecWindow only)
  last,                  \* the handler that ran last, with its inputs
  calls,                 \* the calls that handler made on the broker client library
  step,                  \* the position in the lifecycle scenario (SpecScenario only)
  granted                \* the topics the broker delivers to each handle
                         \* (kept by SpecGranted only)

session ==
  <<client, isConnected, isConnecting, error, messages, subscriptions,
    currentBrokerUrl, currentClientOptions, connectionTimeout>>

environment == <<armed, lib, pending, attempts>>

vars == <<session, environment, last, calls, window, step, granted>>

\* attempt k arms timer k and, unless mqtt.connect throws, creates handle k
Handles == 1..MaxAttempts

Kinds == {"sub", "unsub"}

Requests == Handles \X Kinds \X Topics

RECURSIVE SumOver(_, _)
SumOver(f, S) ==
  IF S = {} THEN 0 ELSE LET x == CHOOSE y \in S : TRUE IN f[x] + SumOver(f, S \ {x})

\* the number of requests in flight
InFlight == SumOver(pending, Requests)

\* handles created by mqtt.connect on which end() was not called
OpenHandles == {h \in Handles : lib[h] \in {"connecting", "connected", "closed"}}

Op(name) ==
  [op |-> name, h |-> 0, url |-> "", o |-> JNull, ts |-> <<>>, m |-> JNull,
   p |-> <<>>, ok |-> TRUE, pre |-> FALSE]

Call(fn, h) ==
  [fn |-> fn, h |-> h, url |-> "", o |-> <<>>, t |-> "", p |-> <<>>, cb |-> FALSE]

Init ==
  /\ client = 0
  /\ isConnected = FALSE
  /\ isConnecting = FALSE
  /\ error = "null"
  /\ messages = <<>>
  /\ subscriptions = <<>>
  /\ currentBrokerUrl = DefaultBrokerUrl
  /\ currentClientOptions = <<>>
  /\ connectionTimeout = 0
  /\ armed = {}
  /\ lib = [h \in Handles |-> "none"]
  /\ pending = [r \in Requests |-> 0]
  /\ attempts = 0
  /\ window = [k \in Handles |-> "none"]
  /\ last = Op("init")
  /\ calls = <<>>
  /\ step = 0
  /\ granted = [h \in Handles |-> {}]

(***************************************************************************)
(* The broker client library, as the handlers see it.                      *)
(*                                                                         *)
(* A handle is "connecting" when created and after 'reconnect',            *)
(* "connected" after 'connect', "closed" after 'close' (it reconnects by   *)
(* itself: reconnectPeriod is 1000).  end() stops it: "ending" when it was *)
(* connected (what is in flight may still be delivered), "ended"           *)
(* otherwise; its last 'close' makes it "gone".                            *)
(***************************************************************************)
\* mqtt.connect(url, options) throws
ConnectThrows(url) == url = BadBrokerUrl

\* client.end() on handle h
End(l, h) ==
  [l EXCEPT ![h] = IF l[h] = "connected" THEN "ending"
                   ELSE IF l[h] \in {"connecting", "closed"} THEN "ended"
                   ELSE l[h]]

\* mutant of ClearTimeout: the timer is left running
ClearTimeoutNever == armed

\* clearTimeout(connectionTimeout.value) under if (connectionTimeout.value)
ClearTimeout == IF connectionTimeout # 0 THEN armed \ {connectionTimeout} ELSE armed

(***************************************************************************)
(* connect (lines 450-569)                                                 *)
(***************************************************************************)
\* mutant of AlreadyActive: the guard forgets isConnecting
AlreadyActiveConnectedOnly == isConnected

\* the guard of line 451
AlreadyActive == isConnecting \/ isConnected

\* the options mqtt.connect is called with (lines 485-491)
DefaultOptions(stored) ==
  Spread(<<Member(<<"c", "l", "i", "e", "n", "t", "I", "d">>, JStr(<<"v", "u", "e">>)),
           Member(<<"c", "l", "e", "a", "n">>, JBool(TRUE)),
           Member(<<"r", "e", "c", "o", "n", "n", "e", "c", "t", "P", "e", "r", "i", "o", "d">>,
                  JNum(1000)),
           Member(<<"c", "o", "n", "n", "e", "c", "t", "T", "i", "m", "e", "o", "u", "t">>,
                  JNum(10 * 1000))>>,
         stored)

\* lines 456-461: the stored url and options after the merge
MergedUrl(url) == IF url # "" THEN url ELSE currentBrokerUrl

\* mutant of MergedOptions: opts replaces the stored options
MergedOptionsReplace(opts) == IF Truthy(opts) THEN opts.f ELSE currentClientOptions

MergedOptions(opts) ==
  IF Truthy(opts) THEN Spread(currentClientOptions, opts.f) ELSE currentClientOptions

connect(url, opts) ==
  /\ last' = [Op("connect") EXCEPT !.url = url, !.o = opts, !.pre = AlreadyActive]
  /\ IF AlreadyActive
       THEN /\ calls' = <<>>
            /\ UNCHANGED <<session, environment>>
       ELSE LET k      == attempts + 1
                thrown == ConnectThrows(MergedUrl(url))
            IN  /\ attempts < MaxAttempts
                /\ currentBrokerUrl' = MergedUrl(url)
                /\ currentClientOptions' = MergedOptions(opts)
                /\ isConnecting' = ~thrown
                /\ error' = IF thrown THEN "create" ELSE "null"
                /\ armed' = ClearTimeout \cup {k}
                /\ connectionTimeout' = k
                /\ client' = IF thrown THEN client ELSE k
                /\ lib' = IF thrown THEN lib ELSE [lib EXCEPT ![k] = "connecting"]
                /\ attempts' = k
                /\ calls' = <<[Call("connect", IF thrown THEN 0 ELSE k) EXCEPT
                                 !.url = MergedUrl(url),
                                 !.o = DefaultOptions(MergedOptions(opts))]>>
                /\ UNCHANGED <<isConnected, messages, subscriptions, pending>>

(***************************************************************************)
(* The callback of the timer armed by attempt k (lines 472-482).  It runs  *)
(* 15 seconds after the connect() of the attempt, if the timer is still    *)
(* armed by then.                                                          *)
(***************************************************************************)
\* mutant of StillWaiting: the negation of line 473 lost
StillWaitingNoNegation == isConnecting /\ isConnected

\* the guard of line 473
StillWaiting == isConnecting /\ ~isConnected

connectionTimeoutCallback(k) ==
  /\ k \in armed
  /\ armed' = armed \ {k}
  /\ last' = [Op("timeout") EXCEPT !.h = k, !.pre = StillWaiting]
  /\ IF StillWaiting
       THEN /\ isConnecting' = FALSE
            /\ error' = "timeout"
            /\ IF client # 0
                 THEN /\ calls' = <<Call("end", client)>>
                      /\ lib' = End(lib, client)
                      /\ client' = 0
                 ELSE /\ calls' = <<>>
                      /\ UNCHANGED <<lib, client>>
            /\ UNCHANGED <<isConnected, messages, subscriptions, currentBrokerUrl,
                           currentClientOptions, connectionTimeout, pending, attempts>>
       ELSE /\ calls' = <<>>
            /\ UNCHANGED <<session, lib, pending, attempts>>

(***************************************************************************)
(* The handlers connect registers on the handle it creates (lines          *)
(* 496-563).  They read and write the refs of the composable, whichever    *)
(* handle emits the event.                                                 *)
(***************************************************************************)
\* lines 496-505
onConnect(h) ==
  /\ lib[h] = "connecting"
  /\ lib' = [lib EXCEPT ![h] = "connected"]
  /\ last' = [Op("onConnect") EXCEPT !.h = h]
  /\ calls' = <<>>
  /\ isConnected' = TRUE
  /\ isConnecting' = FALSE
  /\ error' = "null"
  /\ armed' = ClearTimeout
  /\ connectionTimeout' = 0
  /\ UNCHANGED <<client, messages, subscriptions, currentBrokerUrl, currentClientOptions,
                 pending, attempts>>

\* mutant of onError: isConnecting is left as it was
onErrorKeepsConnecting(h) ==
  /\ lib[h] \in {"connecting", "connected", "closed"}
  /\ last' = [Op("onError") EXCEPT !.h = h]
  /\ calls' = <<>>
  /\ error' = "transport"
  /\ armed' = ClearTimeout
  /\ connectionTimeout' = 0
  /\ UNCHANGED <<client, isConnected, isConnecting, messages, subscriptions,
                 currentBrokerUrl, currentClientOptions, lib, pending, attempts>>

\* lines 507-515
onError(h) ==
  /\ lib[h] \in {"connecting", "connected", "closed"}
  /\ last' = [Op("onError") EXCEPT !.h = h]
  /\ calls' = <<>>
  /\ error' = "transport"
  /\ isConnecting' = FALSE
  /\ armed' = ClearTimeout
  /\ connectionTimeout' = 0
  /\ UNCHANGED <<client, isConnected, messages, subscriptions, currentBrokerUrl,
                 currentClientOptions, lib, pending, attempts>>

\* the requests of handle h dropped when its connection is gone for good
Dropped(h) == [r \in Requests |-> IF r[1] = h THEN 0 ELSE pending[r]]

\* lines 517-525
onClose(h) ==
  /\ lib[h] \in {"connecting", "connected", "ending", "ended"}
  /\ lib' = [lib EXCEPT ![h] = IF lib[h] \in {"ending", "ended"} THEN "gone" ELSE "closed"]
  /\ pending' = IF lib[h] \in {"ending", "ended"} THEN Dropped(h) ELSE pending
  /\ last' = [Op("onClose") EXCEPT !.h = h]
  /\ calls' = <<>>
  /\ isConnected' = FALSE
  /\ isConnecting' = FALSE
  /\ armed' = ClearTimeout
  /\ connectionTimeout' = 0
  /\ UNCHANGED <<client, error, messages, subscriptions, currentBrokerUrl,
                 currentClientOptions, attempts>>

\* lines 527-530
onReconnect(h) ==
  /\ lib[h] = "closed"
  /\ lib' = [lib EXCEPT ![h] = "connecting"]
  /\ last' = [Op("onReconnect") EXCEPT !.h = h]
  /\ calls' = <<>>
  /\ isConnecting' = TRUE
  /\ UNCHANGED <<client, isConnected, error, messages, subscriptions, currentBrokerUrl,
                 currentClientOptions, connectionTimeout, armed, pending, attempts>>

\* lines 532-541
onOffline(h) ==
  /\ lib[h] = "closed"
  /\ last' = [Op("onOffline") EXCEPT !.h = h]
  /\ calls' = <<>>
  /\ isConnected' = FALSE
  /\ isConnecting' = FALSE
  /\ armed' = ClearTimeout
  /\ connectionTimeout' = 0
  /\ error' = "offline"
  /\ UNCHANGED <<client, messages, subscriptions, currentBrokerUrl, currentClientOptions,
                 lib, pending, attempts>>

\* mutant of Record: the payload is never parsed
RecordUnparsed(topic, payload) ==
  [topic |-> topic, data |-> JStr(payload), raw |-> payload]

\* lines 545-562: the record of an inbound message (its timestamp, the
\* capture time, is left out)
Record(topic, payload) ==
  LET parsed == JSONParse(payload)
  IN  [topic |-> topic,
       data  |-> IF parsed.ok THEN parsed.v ELSE JStr(payload),
       raw   |-> payload]

\* mutant of onMessage: the record is pushed to the end of the log
onMessageAppends(h, topic, payload) ==
  /\ lib[h] \in {"connected", "ending"}
  /\ last' = [Op("onMessage") EXCEPT !.h = h, !.ts = <<topic>>, !.p = payload]
  /\ calls' = <<>>
  /\ messages' = Append(messages, Record(topic, payload))
  /\ UNCHANGED <<client, isConnected, isConnecting, error, subscriptions, currentBrokerUrl,
                 currentClientOptions, connectionTimeout, environment>>

\* lines 544-563
onMessage(h, topic, payload) ==
  /\ lib[h] \in {"connected", "ending"}
  /\ last' = [Op("onMessage") EXCEPT !.h = h, !.ts = <<topic>>, !.p = payload]
  /\ calls' = <<>>
  /\ messages' = <<Record(topic, payload)>> \o messages
  /\ UNCHANGED <<client, isConnected, isConnecting, error, subscriptions, currentBrokerUrl,
                 currentClientOptions, connectionTimeout, environment>>

(***************************************************************************)
(* disconnect (lines 574-593)                                              *)
(***************************************************************************)
\* lines 582-584: one unsubscribe call, without callback, for every topic
UnsubscribeAll(h) ==
  [i \in 1..Len(subscriptions) |-> [Call("unsubscribe", h) EXCEPT !.t = subscriptions[i]]]

\* mutant of disconnect: the state is reset whether a handle is held or not
disconnectResetsAlways ==
  /\ last' = [Op("disconnect") EXCEPT !.pre = (client # 0)]
  /\ armed' = ClearTimeout
  /\ connectionTimeout' = 0
  /\ calls' = IF client # 0 THEN UnsubscribeAll(client) \o <<Call("end", client)>> ELSE <<>>
  /\ lib' = IF client # 0 THEN End(lib, client) ELSE lib
  /\ subscriptions' = <<>>
  /\ client' = 0
  /\ isConnected' = FALSE
  /\ isConnecting' = FALSE
  /\ messages' = <<>>
  /\ UNCHANGED <<error, currentBrokerUrl, currentClientOptions, pending, attempts>>

disconnect ==
  /\ last' = [Op("disconnect") EXCEPT !.pre = (client # 0)]
  /\ armed' = ClearTimeout
  /\ connectionTimeout' = 0
  /\ IF client # 0
       THEN /\ calls' = UnsubscribeAll(client) \o <<Call("end", client)>>
            /\ subscriptions' = <<>>
            /\ lib' = End(lib, client)
            /\ client' = 0
            /\ isConnected' = FALSE
            /\ isConnecting' = FALSE
            /\ messages' = <<>>
            /\ UNCHANGED error
       ELSE /\ calls' = <<>>
            /\ UNCHANGED <<client, isConnected, isConnecting, error, messages,
                           subscriptions, lib>>
  /\ UNCHANGED <<currentBrokerUrl, currentClientOptions, pending, attempts>>

(***************************************************************************)
(* subscribe (lines 600-621) and unsubscribe (lines 627-646)               *)
(***************************************************************************)
\* mutant of NotConnected: only the handle is tested
NotConnectedNoHandle == client = 0

\* the guard of lines 601, 628 and 655
NotConnected == client = 0 \/ ~isConnected

RECURSIVE Issue(_, _, _, _)
\* the requests in flight after one more of this kind for every topic of ts
Issue(reqs, h, kind, ts) ==
  IF ts = <<>> THEN reqs
  ELSE Issue([reqs EXCEPT ![<<h, kind, Head(ts)>>] = @ + 1], h, kind, Tail(ts))

\* line 610: the topics of the call that are not in the set
Missing(ts) == SelectSeq(ts, LAMBDA t : ~SetHas(subscriptions, t))

\* line 635: the topics of the call that are in the set
Present(ts) == SelectSeq(ts, LAMBDA t : SetHas(subscriptions, t))

subscribe(ts, options) ==
  /\ last' = [Op("subscribe") EXCEPT !.ts = ts, !.o = JObj(options), !.pre = NotConnected]
  /\ IF NotConnected
       THEN /\ calls' = <<>>
            /\ UNCHANGED pending
       ELSE /\ calls' = [i \in 1..Len(Missing(ts)) |->
                           [Call("subscribe", client) EXCEPT
                              !.t = Missing(ts)[i],
                              !.o = Spread(<<QosMember(0)>>, options),
                              !.cb = TRUE]]
            /\ pending' = Issue(pending, client, "sub", Missing(ts))
  /\ UNCHANGED <<session, armed, lib, attempts>>

\* mutant of subscribeCallback: the topic is added whatever err is
subscribeCallbackIgnoresErr(h, t, err) ==
  /\ pending[<<h, "sub", t>>] > 0
  /\ IF err THEN lib[h] # "none" ELSE lib[h] \in {"connected", "ending"}
  /\ pending' = [pending EXCEPT ![<<h, "sub", t>>] = @ - 1]
  /\ last' = [Op("subscribeCallback") EXCEPT !.h = h, !.ts = <<t>>, !.ok = ~err,
                                              !.pre = SetHas(subscriptions, t)]
  /\ calls' = <<>>
  /\ subscriptions' = SetAdd(subscriptions, t)
  /\ UNCHANGED <<client, isConnected, isConnecting, error, messages, currentBrokerUrl,
                 currentClientOptions, connectionTimeout, armed, lib, attempts>>

\* lines 611-618: the callback of a subscribe request
subscribeCallback(h, t, err) ==
  /\ pending[<<h, "sub", t>>] > 0
  /\ IF err THEN lib[h] # "none" ELSE lib[h] \in {"connected", "ending"}
  /\ pending' = [pending EXCEPT ![<<h, "sub", t>>] = @ - 1]
  /\ last' = [Op("subscribeCallback") EXCEPT !.h = h, !.ts = <<t>>, !.ok = ~err,
                                              !.pre = SetHas(subscriptions, t)]
  /\ calls' = <<>>
  /\ subscriptions' = IF err THEN subscriptions ELSE SetAdd(subscriptions, t)
  /\ UNCHANGED <<client, isConnected, isConnecting, error, messages, currentBrokerUrl,
                 currentClientOptions, connectionTimeout, armed, lib, attempts>>

unsubscribe(ts) ==
  /\ last' = [Op("unsubscribe") EXCEPT !.ts = ts, !.pre = NotConnected]
  /\ IF NotConnected
       THEN /\ calls' = <<>>
            /\ UNCHANGED pending
       ELSE /\ calls' = [i \in 1..Len(Present(ts)) |->
                           [Call("unsubscribe", client) EXCEPT
                              !.t = Present(ts)[i], !.cb = TRUE]]
            /\ pending' = Issue(pending, client, "unsub", Present(ts))
  /\ UNCHANGED <<session, armed, lib, attempts>>

\* lines 636-643: the callback of an unsubscribe request
unsubscribeCallback(h, t, err) ==
  /\ pending[<<h, "unsub", t>>] > 0
  /\ IF err THEN lib[h] # "none" ELSE lib[h] \in {"connected", "ending"}
  /\ pending' = [pending EXCEPT ![<<h, "unsub", t>>] = @ - 1]
  /\ last' = [Op("unsubscribeCallback") EXCEPT !.h = h, !.ts = <<t>>, !.ok = ~err,
                                                !.pre = SetHas(subscriptions, t)]
  /\ calls' = <<>>
  /\ subscriptions' = IF err THEN subscriptions ELSE SetDelete(subscriptions, t)
  /\ UNCHANGED <<client, isConnected, isConnecting, error, messages, currentBrokerUrl,
                 currentClientOptions, connectionTimeout, armed, lib, attempts>>

(***************************************************************************)
(* publish (lines 654-671) and clearMessages (lines 71-74)                 *)
(***************************************************************************)
\* mutant of Payload: String(message) whatever the type
PayloadAlwaysString(message) == StringOf(message)

\* lines 660-661
Payload(message) ==
  IF TypeofObject(message) THEN JSONStringify(message) ELSE StringOf(message)

\* line 662
PublishOptions(options) == Spread(<<QosMember(0), RetainMember(FALSE)>>, options)

publish(topic, message, options) ==
  /\ last' = [Op("publish") EXCEPT !.ts = <<topic>>, !.m = message, !.o = JObj(options),
                                    !.pre = NotConnected]
  /\ calls' = IF NotConnected THEN <<>>
              ELSE <<[Call("publish", client) EXCEPT
                        !.t = topic, !.p = Payload(message),
                        !.o = PublishOptions(options), !.cb = TRUE]>>
  /\ UNCHANGED <<session, environment>>

clearMessages ==
  /\ last' = Op("clearMessages")
  /\ calls' = <<>>
  /\ messages' = <<>>
  /\ UNCHANGED <<client, isConnected, isConnecting, error, subscriptions, currentBrokerUrl,
                 currentClientOptions, connectionTimeout, environment>>

(***************************************************************************)
(* The program: any handler, on any input, at any time.  Spec explores the *)
(* whole life cycle with the form's inputs; SpecData and SpecWindow below  *)
(* take the same handlers with other inputs and bounds.                    *)
(***************************************************************************)
\* the connect calls of the form: its URL field with the clientOptions
\* object, empty without credentials, or a URL without protocol with a
\* username
LifeConnectArgs ==
  {<<FormBrokerUrl, JObj(<<>>)>>,
   <<BadBrokerUrl, JObj(<<Member(<<"u", "s", "e", "r", "n", "a", "m", "e">>, JStr(Alice))>>)>>}

\* a call that would put more than bound requests in flight is not taken
Room(ts, bound) == NotConnected \/ InFlight + Len(ts) <= bound

Next ==
  \/ \E a \in LifeConnectArgs : connect(a[1], a[2]) /\ UNCHANGED <<window, step, granted>>
  \/ \E k \in Handles : connectionTimeoutCallback(k) /\ UNCHANGED <<window, step, granted>>
  \/ \E h \in Handles : onConnect(h) /\ UNCHANGED <<window, step, granted>>
  \/ \E h \in Handles : onError(h) /\ UNCHANGED <<window, step, granted>>
  \/ \E h \in Handles : onClose(h) /\ UNCHANGED <<window, step, granted>>
  \/ \E h \in Handles : onReconnect(h) /\ UNCHANGED <<window, step, granted>>
  \/ \E h \in Handles : onOffline(h) /\ UNCHANGED <<window, step, granted>>
  \/ \E h \in Handles, t \in Topics :
       Len(messages) < MaxLog /\ onMessage(h, t, PayloadX1) /\ UNCHANGED <<window, step, granted>>
  \/ disconnect /\ UNCHANGED <<window, step, granted>>
  \/ \E t \in Topics :
       Room(Missing(<<t>>), MaxPending) /\ subscribe(<<t>>, <<>>) /\ UNCHANGED <<window, step, granted>>
  \/ \E h \in Handles, t \in Topics, err \in BOOLEAN :
       subscribeCallback(h, t, err) /\ UNCHANGED <<window, step, granted>>
  \/ \E t \in Topics :
       Room(Present(<<t>>), MaxPending) /\ unsubscribe(<<t>>) /\ UNCHANGED <<window, step, granted>>
  \/ \E h \in Handles, t \in Topics, err \in BOOLEAN :
       unsubscribeCallback(h, t, err) /\ UNCHANGED <<window, step, granted>>
  \/ publish("gps/data", MessageRaw, <<>>) /\ UNCHANGED <<window, step, granted>>
  \/ clearMessages /\ UNCHANGED <<window, step, granted>>

Spec == Init /\ [][Next]_vars


(***************************************************************************)
(* SpecWindow: the same handlers, observed against the 15 seconds that     *)
(* follow each attempt.  window[k] is "open" from the connect() of attempt *)
(* k on, "cut" once an 'error', 'close' or 'offline' event or a            *)
(* disconnect() was handled inside it, "acked" once a 'connect' event was, *)
(* and when the 15 seconds are over it keeps what it saw ("quiet",         *)
(* "wasCut", "wasAcked").  The timer of the attempt fires at that moment,  *)
(* if it is still armed.                                                   *)
(***************************************************************************)
Running == {"open", "cut", "acked"}

\* what the running windows have seen once an event of this kind is handled
Seen(kind) ==
  [k \in Handles |->
     IF window[k] \notin Running THEN window[k]
     ELSE IF kind = "acked" THEN "acked"
     ELSE IF window[k] = "open" THEN "cut"
     ELSE window[k]]

Over(w) == IF w = "open" THEN "quiet" ELSE IF w = "cut" THEN "wasCut" ELSE "wasAcked"

\* 15 seconds after the connect() of attempt k
windowEnd(k) ==
  /\ window[k] \in Running
  /\ \A j \in 1..(k - 1) : window[j] \notin Running
  /\ window' = [window EXCEPT ![k] = Over(window[k])]
  /\ IF k \in armed
       THEN connectionTimeoutCallback(k)
       ELSE /\ last' = [Op("timeout") EXCEPT !.h = k, !.ok = FALSE, !.pre = StillWaiting]
            /\ calls' = <<>>
            /\ UNCHANGED <<session, environment>>

NextWindow ==
  \/ \E a \in LifeConnectArgs :
       /\ connect(a[1], a[2])
       /\ window' = IF AlreadyActive THEN window ELSE [window EXCEPT ![attempts + 1] = "open"]
       /\ UNCHANGED <<step, granted>>
  \/ \E k \in Handles : windowEnd(k) /\ UNCHANGED <<step, granted>>
  \/ \E h \in Handles : onConnect(h) /\ window' = Seen("acked") /\ UNCHANGED <<step, granted>>
  \/ \E h \in Handles : onError(h) /\ window' = Seen("cut") /\ UNCHANGED <<step, granted>>
  \/ \E h \in Handles : onClose(h) /\ window' = Seen("cut") /\ UNCHANGED <<step, granted>>
  \/ \E h \in Handles : onReconnect(h) /\ UNCHANGED <<window, step, granted>>
  \/ \E h \in Handles : onOffline(h) /\ window' = Seen("cut") /\ UNCHANGED <<step, granted>>
  \/ \E h \in Handles :
       /\ Len(messages) < MaxWindowLog
       /\ onMessage(h, "gps/location", PayloadX1)
       /\ UNCHANGED <<window, step, granted>>
  \/ disconnect /\ window' = Seen("cut") /\ UNCHANGED <<step, granted>>
  \/ /\ Room(Missing(<<"gps/location">>), MaxWindowPending)
     /\ subscribe(<<"gps/location">>, <<>>)
     /\ UNCHANGED <<window, step, granted>>
  \/ \E h \in Handles, err \in BOOLEAN :
       subscribeCallback(h, "gps/location", err) /\ UNCHANGED <<window, step, granted>>
  \/ /\ Room(Present(<<"gps/location">>), MaxWindowPending)
     /\ unsubscribe(<<"gps/location">>)
     /\ UNCHANGED <<window, step, granted>>
  \/ \E h \in Handles, err \in BOOLEAN :
       unsubscribeCallback(h, "gps/location", err) /\ UNCHANGED <<window, step, granted>>
  \/ publish("gps/data", MessageRaw, <<>>) /\ UNCHANGED <<window, step, granted>>
  \/ clearMessages /\ UNCHANGED <<window, step, granted>>

SpecWindow == Init /\ [][NextWindow]_vars

(***************************************************************************)
(* SpecData: one session at a time (connect, 'connect', disconnect), with  *)
(* every input of the model for the payloads of inbound messages and for   *)
(* the arguments of connect, subscribe and publish.                        *)
(***************************************************************************)
NextData ==
  \/ \E url \in UrlArgs, opts \in OptArgs : connect(url, opts) /\ UNCHANGED <<window, step, granted>>
  \/ \E h \in Handles : onConnect(h) /\ UNCHANGED <<window, step, granted>>
  \/ \E h \in Handles, p \in JsonPayloads \cup TextPayloads :
       /\ Len(messages) < MaxDataLog
       /\ onMessage(h, "gps/location", p)
       /\ UNCHANGED <<window, step, granted>>
  \/ disconnect /\ UNCHANGED <<window, step, granted>>
  \/ \E m \in Messages, o \in PubOptArgs :
       publish("gps/data", m, o) /\ UNCHANGED <<window, step, granted>>
  \/ clearMessages /\ UNCHANGED <<window, step, granted>>

SpecData == Init /\ [][NextData]_vars

(***************************************************************************)
(* SpecScenario: the life cycle of one session, step by step.              *)
(***************************************************************************)
NextScenario ==
  \/ /\ step = 0
     /\ \E url \in {"", FormBrokerUrl}, opts \in OptArgs : connect(url, opts)
     /\ step' = 1
     /\ UNCHANGED <<window, granted>>
  \/ /\ step = 1
     /\ onConnect(client)
     /\ step' = 2
     /\ UNCHANGED <<window, granted>>
  \/ /\ step = 2
     /\ \E t \in Topics, o \in SubOptArgs : subscribe(<<t>>, o)
     /\ step' = 3
     /\ UNCHANGED <<window, granted>>
  \/ /\ step = 3
     /\ \E t \in Topics : subscribeCallback(client, t, FALSE)
     /\ step' = 4
     /\ UNCHANGED <<window, granted>>
  \/ /\ step = 4
     /\ \E p \in JsonPayloads : onMessage(client, last.ts[1], p)
     /\ step' = 5
     /\ UNCHANGED <<window, granted>>
  \/ /\ step = 5
     /\ disconnect
     /\ step' = 6
     /\ UNCHANGED <<window, granted>>

SpecScenario == Init /\ [][NextScenario]_vars


(***************************************************************************)
(* SpecGranted: the same handlers, with the subscriptions the broker holds *)
(* for each handle.  The broker adds a topic when it grants a subscribe    *)
(* request of the handle and removes it when it grants an unsubscribe      *)
(* request; a new handle has none (clean is true); a handle that           *)
(* reconnects by itself subscribes again to what it had; end() gives up    *)
(* the subscriptions of the handle.                                        *)
(***************************************************************************)
\* the subscriptions left once end() was called on handle h
Ended(h) == IF h = 0 THEN granted ELSE [granted EXCEPT ![h] = {}]

\* the subscriptions held once the broker has answered a request of handle h
Answered(h, kind, t, err) ==
  IF err \/ lib[h] # "connected" THEN granted
  ELSE [granted EXCEPT ![h] = IF kind = "sub" THEN @ \cup {t} ELSE @ \ {t}]

NextGranted ==
  \/ \E a \in LifeConnectArgs : connect(a[1], a[2]) /\ UNCHANGED <<window, step, granted>>
  \/ \E k \in Handles :
       /\ connectionTimeoutCallback(k)
       /\ granted' = IF StillWaiting THEN Ended(client) ELSE granted
       /\ UNCHANGED <<window, step>>
  \/ \E h \in Handles : onConnect(h) /\ UNCHANGED <<window, step, granted>>
  \/ \E h \in Handles : onError(h) /\ UNCHANGED <<window, step, granted>>
  \/ \E h \in Handles : onClose(h) /\ UNCHANGED <<window, step, granted>>
  \/ \E h \in Handles : onReconnect(h) /\ UNCHANGED <<window, step, granted>>
  \/ \E h \in Handles : onOffline(h) /\ UNCHANGED <<window, step, granted>>
  \/ \E h \in Handles :
       /\ Len(messages) < MaxWindowLog
       /\ "gps/location" \in granted[h] \/ lib[h] = "ending"
       /\ onMessage(h, "gps/location", PayloadX1)
       /\ UNCHANGED <<window, step, granted>>
  \/ disconnect /\ granted' = Ended(client) /\ UNCHANGED <<window, step>>
  \/ /\ Room(Missing(<<"gps/location">>), MaxWindowPending)
     /\ subscribe(<<"gps/location">>, <<>>)
     /\ UNCHANGED <<window, step, granted>>
  \/ \E h \in Handles, err \in BOOLEAN :
       /\ subscribeCallback(h, "gps/location", err)
       /\ granted' = Answered(h, "sub", "gps/location", err)
       /\ UNCHANGED <<window, step>>
  \/ /\ Room(Present(<<"gps/location">>), MaxWindowPending)
     /\ unsubscribe(<<"gps/location">>)
     /\ UNCHANGED <<window, step, granted>>
  \/ \E h \in Handles, err \in BOOLEAN :
       /\ unsubscribeCallback(h, "gps/location", err)
       /\ granted' = Answered(h, "unsub", "gps/location", err)
       /\ UNCHANGED <<window, step>>
  \/ publish("gps/data", MessageRaw, <<>>) /\ UNCHANGED <<window, step, granted>>
  \/ clearMessages /\ UNCHANGED <<window, step, granted>>

SpecGranted == Init /\ [][NextGranted]_vars


(***************************************************************************)
(* SpecLog: the same handlers, with a log of up to MaxOrderLog records of  *)
(* messages that differ in topic and payload.                              *)
(***************************************************************************)
NextLog ==
  \/ connect(FormBrokerUrl, JNull) /\ UNCHANGED <<window, step, granted>>
  \/ \E k \in Handles : connectionTimeoutCallback(k) /\ UNCHANGED <<window, step, granted>>
  \/ \E h \in Handles : onConnect(h) /\ UNCHANGED <<window, step, granted>>
  \/ \E h \in Handles : onError(h) /\ UNCHANGED <<window, step, granted>>
  \/ \E h \in Handles : onClose(h) /\ UNCHANGED <<window, step, granted>>
  \/ \E h \in Handles : onReconnect(h) /\ UNCHANGED <<window, step, granted>>
  \/ \E h \in Handles : onOffline(h) /\ UNCHANGED <<window, step, granted>>
  \/ \E h \in Handles, m \in {<<"gps/location", PayloadX1>>, <<"gps/data", PayloadHello>>} :
       /\ Len(messages) < MaxOrderLog
       /\ onMessage(h, m[1], m[2])
       /\ UNCHANGED <<window, step, granted>>
  \/ disconnect /\ UNCHANGED <<window, step, granted>>
  \/ /\ Room(Missing(<<"gps/location">>), MaxOrderPending)
     /\ subscribe(<<"gps/location">>, <<>>)
     /\ UNCHANGED <<window, step, granted>>
  \/ \E h \in Handles, err \in BOOLEAN :
       subscribeCallback(h, "gps/location", err) /\ UNCHANGED <<window, step, granted>>
  \/ /\ Room(Present(<<"gps/location">>), MaxOrderPending)
     /\ unsubscribe(<<"gps/location">>)
     /\ UNCHANGED <<window, step, granted>>
  \/ \E h \in Handles, err \in BOOLEAN :
       unsubscribeCallback(h, "gps/location", err) /\ UNCHANGED <<window, step, granted>>
  \/ publish("gps/data", MessageRaw, <<>>) /\ UNCHANGED <<window, step, granted>>
  \/ clearMessages /\ UNCHANGED <<window, step, granted>>

SpecLog == Init /\ [][NextLog]_vars


(***************************************************************************)
(* SpecOptions: attempts that follow one another, with every url and opts  *)
(* argument of the model for connect.                                      *)
(***************************************************************************)
NextOptions ==
  \/ \E url \in UrlArgs, opts \in ConnectOptArgs :
       connect(url, opts) /\ UNCHANGED <<window, step, granted>>
  \/ \E k \in Handles : connectionTimeoutCallback(k) /\ UNCHANGED <<window, step, granted>>
  \/ \E h \in Handles : onConnect(h) /\ UNCHANGED <<window, step, granted>>
  \/ \E h \in Handles : onError(h) /\ UNCHANGED <<window, step, granted>>
  \/ \E h \in Handles : onClose(h) /\ UNCHANGED <<window, step, granted>>
  \/ disconnect /\ UNCHANGED <<window, step, granted>>

SpecOptions == Init /\ [][NextOptions]_vars


(***************************************************************************)
(* Properties.                                                             *)
(***************************************************************************)
\* C1: a connect() called while isConnecting or isConnected is true changes
\* nothing: the flags, error, the stored URL and options, the handle, the
\* timer, the subscription set and the log are as before, and no call is made
\* on the broker client library (no client is created).
C1_ConnectWhileActiveIsNoOp ==
  [][(last'.op = "connect" /\ (isConnecting \/ isConnected))
       => (UNCHANGED <<session, environment>> /\ calls' = <<>>)]_vars

\* connect() has just returned early on a connected session with a subscription
C1_Witness ==
  /\ last.op = "connect"
  /\ last.pre
  /\ isConnected
  /\ subscriptions # <<>>
  /\ calls = <<>>

\* C2: right after disconnect() returns, the subscription set and the log are
\* empty and both flags are false, whatever the state before.
C2_DisconnectAlwaysResets ==
  last.op = "disconnect"
    => (subscriptions = <<>> /\ messages = <<>> /\ ~isConnected /\ ~isConnecting)

\* C4: at most one broker client created by connect() is open (end() not
\* called on it) at any time.
C4_AtMostOneOpenClient == Cardinality(OpenHandles) <= 1

\* C5: a successful subscribe acknowledgment for topic t leaves t in the set
\* exactly once and changes the count of no other topic, also when t is in
\* the set already (the second of two requests issued before either
\* acknowledgment).
C5_AcknowledgedOnce ==
  [][(last'.op = "subscribeCallback" /\ last'.ok)
       => \A u \in Topics :
            Count(subscriptions', u) =
              IF u = last'.ts[1] THEN 1 ELSE Count(subscriptions, u)]_vars

\* the second acknowledgment of two requests for one topic has been delivered
C5_Witness ==
  /\ last.op = "subscribeCallback"
  /\ last.ok
  /\ last.pre
  /\ Count(subscriptions, last.ts[1]) = 1

\* C6: a topic enters the subscription set only in a successful subscribe
\* acknowledgment for that topic; it leaves only in a successful unsubscribe
\* acknowledgment for that topic or in a disconnect() that empties the set;
\* no other step changes the set.
C6_SetChangesOnlyByAcknowledgment ==
  [][/\ \A t \in Topics :
          (~SetHas(subscriptions, t) /\ SetHas(subscriptions', t))
            => (last'.op = "subscribeCallback" /\ last'.ok /\ last'.ts = <<t>>)
     /\ \A t \in Topics :
          (SetHas(subscriptions, t) /\ ~SetHas(subscriptions', t))
            => \/ last'.op = "unsubscribeCallback" /\ last'.ok /\ last'.ts = <<t>>
               \/ last'.op = "disconnect" /\ subscriptions' = <<>>
     /\ subscriptions' # subscriptions
          => last'.op \in {"subscribeCallback", "unsubscribeCallback", "disconnect"}]_vars

\* an unsubscribe acknowledgment has removed one of two topics
C6_Witness ==
  /\ last.op = "unsubscribeCallback"
  /\ last.ok
  /\ last.pre
  /\ Len(subscriptions) = 1
  /\ ~SetHas(subscriptions, last.ts[1])

\* C7: subscribe(), unsubscribe() and publish() called while the handle is
\* null or isConnected is false make no call on the broker client library and
\* change neither the session state nor the requests in flight.
C7_IgnoredWhenNotConnected ==
  [][(last'.op \in {"subscribe", "unsubscribe", "publish"} /\ (client = 0 \/ ~isConnected))
       => (calls' = <<>> /\ UNCHANGED <<session, environment>>)]_vars

\* subscribe() was ignored on a handle that exists but is not connected
C7_Witness ==
  /\ last.op = "subscribe"
  /\ last.pre
  /\ client # 0
  /\ ~isConnected
  /\ calls = <<>>


\* the handle of attempt k was closed with end()
Closed(k) == lib[k] \in {"ending", "ended", "gone"}

\* C3 as claimed: when the 15 seconds of an attempt that created a client are
\* over and no 'connect' event was handled inside them, both flags are false,
\* error is the timeout error, and the handle is closed and cleared, whatever
\* else was handled inside them.
C3_TimeoutWhateverHappened ==
  (last.op = "timeout" /\ lib[last.h] # "none" /\ window[last.h] \in {"quiet", "wasCut"})
    => (~isConnecting /\ ~isConnected /\ error = "timeout" /\ client = 0 /\ Closed(last.h))

\* C3 amended: the same when, besides no 'connect' event, no 'error', 'close'
\* or 'offline' event and no disconnect() was handled inside the 15 seconds
\* ('reconnect' events, messages and callbacks may have been); the handle is
\* then closed by the end() call of the timer callback.
C3_TimeoutOfQuietWindow ==
  (last.op = "timeout" /\ lib[last.h] # "none" /\ window[last.h] = "quiet")
    => /\ ~isConnecting /\ ~isConnected /\ error = "timeout"
       /\ client = 0 /\ Closed(last.h)
       /\ last.ok /\ calls = <<Call("end", last.h)>>

\* the timer of the second attempt has fired on a quiet window, while the
\* handle of the first attempt is still open
C3_Witness ==
  /\ last.op = "timeout"
  /\ last.h = 2
  /\ window[2] = "quiet"
  /\ lib[2] = "ended"
  /\ lib[1] \in {"connecting", "connected", "closed"}
  /\ error = "timeout"

\* the value of member k of an options object, d when absent
ObjGet(members, k, d) ==
  IF \E i \in 1..Len(members) : members[i].k = k
    THEN members[CHOOSE i \in 1..Len(members) : members[i].k = k].v
    ELSE d

\* the values the JSON payloads stand for, written out
ExpectedData(p) ==
  CASE p = PayloadX1 -> JObj(<<Member(<<"x">>, JNum(1))>>)
    [] p = PayloadLatLon ->
         JObj(<<Member(<<"l", "a", "t">>, JNum(1)), Member(<<"l", "o", "n">>, JNum(2))>>)
    [] p = PayloadSpaced -> JObj(<<Member(<<"x">>, JNum(0 - 7))>>)
    [] p = PayloadQuoted -> JStr(<<"h", "i">>)
    [] p = PayloadNumber -> JNum(12)
    [] p = PayloadNull -> JNull
    [] p = PayloadEmptyObject -> JObj(<<>>)
    [] p = PayloadNested ->
         JObj(<<Member(<<"p">>, JObj(<<Member(<<"o", "k">>, JBool(TRUE))>>))>>)

\* C8: an inbound message with payload p on topic t adds exactly one record,
\* at the front, with topic t and raw p; its data is the value p stands for
\* when p is a JSON text and the text p itself when it is not.
C8_MessageRecord ==
  [][last'.op = "onMessage"
       => /\ Len(messages') = Len(messages) + 1
          /\ Tail(messages') = messages
          /\ Head(messages').topic = last'.ts[1]
          /\ Head(messages').raw = last'.p
          /\ last'.p \in JsonPayloads => Head(messages').data = ExpectedData(last'.p)
          /\ last'.p \in TextPayloads => Head(messages').data = JStr(last'.p)]_vars

\* the two messages of the specification: {"x":1}, then hello
C8_Witness ==
  /\ last.op = "onMessage"
  /\ Len(messages) = 2
  /\ messages[1] = [topic |-> "gps/location", data |-> JStr(PayloadHello), raw |-> PayloadHello]
  /\ messages[2] = [topic |-> "gps/location", data |-> JObj(<<Member(<<"x">>, JNum(1))>>),
                    raw |-> PayloadX1]

\* C9: publish(topic, message, options) on a connected session makes exactly
\* one publish call, on that topic and on the handle held; the payload is the
\* message itself when it is a string and a JSON text that stands for the
\* message when it is an object ({"a":1} for {a: 1}); qos and retain are
\* those of options, 0 and false when options does not give them.
C9_PublishPayload ==
  [][(last'.op = "publish" /\ client # 0 /\ isConnected)
       => /\ Len(calls') = 1
          /\ calls'[1].fn = "publish"
          /\ calls'[1].h = client
          /\ calls'[1].t = last'.ts[1]
          /\ last'.m.t = "str" => calls'[1].p = last'.m.s
          /\ last'.m.t = "obj" => JSONParse(calls'[1].p) = ParseOk(last'.m, Len(calls'[1].p) + 1)
          /\ last'.m = MessageA1 => calls'[1].p = <<"{", "\"", "a", "\"", ":", "1", "}">>
          /\ ObjGet(calls'[1].o, <<"q", "o", "s">>, JNull)
               = ObjGet(last'.o.f, <<"q", "o", "s">>, JNum(0))
          /\ ObjGet(calls'[1].o, <<"r", "e", "t", "a", "i", "n">>, JNull)
               = ObjGet(last'.o.f, <<"r", "e", "t", "a", "i", "n">>, JBool(FALSE))]_vars

\* {a: 1} was published with the default options
C9_Witness ==
  /\ last.op = "publish"
  /\ last.m = MessageA1
  /\ last.o = JObj(<<>>)
  /\ calls = <<[Call("publish", client) EXCEPT
                  !.t = "gps/data",
                  !.p = <<"{", "\"", "a", "\"", ":", "1", "}">>,
                  !.o = <<QosMember(0), RetainMember(FALSE)>>,
                  !.cb = TRUE]>>

\* C10: after connect(url), 'connect', subscribe(t), its acknowledgment and
\* one message on t with a JSON payload, the session is connected, the set is
\* {t} and the log holds one record, with topic t and the parsed payload;
\* after the disconnect() that follows, the log and the set are empty and
\* both flags are false.
C10_Lifecycle ==
  /\ step = 5 => /\ isConnected
                 /\ subscriptions = last.ts
                 /\ Len(subscriptions) = 1
                 /\ Len(messages) = 1
                 /\ messages[1].topic = subscriptions[1]
                 /\ messages[1].raw = last.p
                 /\ messages[1].data = ExpectedData(last.p)
  /\ step = 6 => /\ messages = <<>>
                 /\ subscriptions = <<>>
                 /\ ~isConnected
                 /\ ~isConnecting

\* the scenario has run to its end: disconnect() has unsubscribed the topic
\* and ended the handle
C10_Witness ==
  /\ step = 6
  /\ last.op = "disconnect"
  /\ calls = <<[Call("unsubscribe", 1) EXCEPT !.t = "gps/location"], Call("end", 1)>>

\* C11: a handled 'connect' event leaves isConnected true, isConnecting
\* false, error null and no connect timeout armed or stored; a timer that is
\* no longer armed is never armed again, and the timeout action only takes
\* effect from a timer that is still armed: so after the 'connect' event the
\* timeout of that attempt never sets the timeout error or ends the handle.
C11_ConnectEventDisarmsTimeout ==
  [][/\ last'.op = "onConnect"
          => /\ isConnected' /\ ~isConnecting' /\ error' = "null"
             /\ armed' = {} /\ connectionTimeout' = 0
     /\ \A k \in Handles : (k <= attempts /\ k \notin armed) => k \notin armed'
     /\ (last'.op = "timeout" /\ (error' # error \/ client' # client \/ lib' # lib))
          => (last'.h \in armed /\ last'.h \notin armed')]_vars

\* the 'connect' event of the first attempt has just been handled, while the
\* timer of the attempt was running: the session is connected on its handle
\* and the timer is gone
C11_Witness ==
  /\ last.op = "onConnect"
  /\ last.h = 1
  /\ client = 1
  /\ attempts = 1
  /\ isConnected /\ ~isConnecting
  /\ armed = {}
  /\ connectionTimeout = 0

\* C12: a handled 'error' event sets error to the reported error, resets
\* isConnecting and disarms the connect timeout, and leaves the handle held,
\* isConnected, the subscription set and the log as they were; a 'connect'
\* event of a handle, also of one that reported an error before, leaves
\* isConnected true and error null.
C12_ErrorEvent ==
  [][/\ last'.op = "onError"
          => /\ error' = "transport"
             /\ ~isConnecting'
             /\ armed' = {} /\ connectionTimeout' = 0
             /\ UNCHANGED <<client, isConnected, subscriptions, messages>>
     /\ (last'.op = "onConnect" /\ (error = "transport" \/ last.op = "onError"))
          => (isConnected' /\ error' = "null")]_vars

\* the handle held has reported an error while the attempt was waiting: the
\* error is shown, the session is idle with its handle kept, and the handle is
\* still trying, so that its 'connect' event can follow
C12_Witness ==
  /\ last.op = "onError"
  /\ last.h = client
  /\ lib[client] = "connecting"
  /\ error = "transport"
  /\ ~isConnecting /\ ~isConnected
  /\ armed = {}

\* C13: the callback of a subscribe or unsubscribe request that failed leaves
\* the subscription set as it was (a topic not in the set is not added, a
\* topic in the set stays), and leaves the flags, error and the log unchanged.
C13_FailedAcknowledgment ==
  [][(last'.op \in {"subscribeCallback", "unsubscribeCallback"} /\ ~last'.ok)
       => /\ subscriptions' = subscriptions
          /\ SetHas(subscriptions', last'.ts[1]) = last'.pre
          /\ UNCHANGED <<isConnected, isConnecting, error, messages>>]_vars

\* the broker has rejected the subscribe request for a topic that is not in
\* the set, while the other topic is: the set still holds the other topic only
C13_Witness ==
  /\ last.op = "subscribeCallback"
  /\ ~last.ok
  /\ ~last.pre
  /\ last.ts = <<"gps/data">>
  /\ subscriptions = <<"gps/location">>
  /\ isConnected

\* the state of the session as the two flags show it
SessionState(connecting, connected) ==
  IF connecting /\ connected THEN "Both"
  ELSE IF connecting THEN "Connecting"
  ELSE IF connected THEN "Connected"
  ELSE "Idle"

\* C14: every step leaves the state of the session (Idle, Connecting,
\* Connected) unchanged or is Idle to Connecting by connect(), Connecting to
\* Connected by the 'connect' event, Connected to Idle by disconnect(),
\* 'close' or 'offline', Connecting to Idle by the timeout, an error
\* ('error', 'close' or 'offline' event) or disconnect(), or Connected to
\* Connecting by the 'reconnect' event.
C14_Transitions ==
  [][LET from == SessionState(isConnecting, isConnected)
         to   == SessionState(isConnecting', isConnected')
         by   == last'.op
     IN  \/ from = to
         \/ from = "Idle" /\ to = "Connecting" /\ by = "connect"
         \/ from = "Connecting" /\ to = "Connected" /\ by = "onConnect"
         \/ from = "Connected" /\ to = "Idle" /\ by \in {"disconnect", "onClose", "onOffline"}
         \/ /\ from = "Connecting" /\ to = "Idle"
            /\ by \in {"timeout", "onError", "onClose", "onOffline", "disconnect"}
         \/ from = "Connected" /\ to = "Connecting" /\ by = "onReconnect"]_vars

\* C15: after a disconnect() on a live handle, after the connect timeout has
\* taken effect, and after client creation failed inside connect(), the
\* handle is null and both flags are false.
C15_SessionDestroyed ==
  (\/ last.op = "disconnect" /\ last.pre
   \/ last.op = "timeout" /\ last.pre
   \/ last.op = "connect" /\ ~last.pre /\ calls[1].h = 0)
    => (client = 0 /\ ~isConnected /\ ~isConnecting)

\* C16: once disconnect() has torn down a handle, an acknowledgment of a
\* subscribe or unsubscribe request or an inbound message of that handle,
\* delivered right after it, leaves the subscription set and the log empty.
C16_HardCancellation ==
  [][(/\ last.op = "disconnect" /\ last.pre
      /\ last'.op \in {"subscribeCallback", "unsubscribeCallback", "onMessage"}
      /\ last'.h = calls[Len(calls)].h)
       => (subscriptions' = <<>> /\ messages' = <<>>)]_vars

\* C17: a 'close', 'offline', 'error' or 'reconnect' event of a handle that
\* was replaced or torn down, handled while a newer attempt holds its own
\* handle, changes neither the flags nor error nor the timer of that attempt.
C17_NoRaceBetweenSessions ==
  [][(/\ last'.op \in {"onClose", "onOffline", "onError", "onReconnect"}
      /\ client # 0
      /\ last'.h < client)
       => UNCHANGED <<isConnecting, isConnected, error, armed, connectionTimeout>>]_vars

\* C18: while the session holds a handle, every topic in the subscription set
\* is subscribed, at the broker, on that handle; and a subscribe(t) of a
\* connected session whose handle has no subscription to t issues a subscribe
\* request for t on that handle.
C18_SetMatchesHandle ==
  [][/\ client' # 0
          => \A i \in 1..Len(subscriptions') : subscriptions'[i] \in granted'[client']
     /\ (last'.op = "subscribe" /\ ~last'.pre
           /\ \E i \in 1..Len(last'.ts) : last'.ts[i] \notin granted[client])
          => calls' # <<>>]_vars

\* C19: isConnected and isConnecting are never both true.
C19_FlagsExclusive == ~(isConnected /\ isConnecting)

\* C20: every inbound message makes the log one record longer, with the
\* record of the message at the front and the earlier records behind it in
\* the order they had; the log gets shorter only in a disconnect() or a
\* clearMessages step, which leaves it empty.
C20_NewestFirst ==
  [][/\ last'.op = "onMessage"
          => /\ Len(messages') = Len(messages) + 1
             /\ Head(messages').topic = last'.ts[1]
             /\ Head(messages').raw = last'.p
             /\ Tail(messages') = messages
     /\ Len(messages') < Len(messages)
          => (last'.op \in {"disconnect", "clearMessages"} /\ messages' = <<>>)]_vars

\* a third message has arrived, on gps/data, after one on gps/location that
\* followed one on gps/data: the log holds the three records, newest first
C20_Witness ==
  /\ last.op = "onMessage"
  /\ last.ts = <<"gps/data">>
  /\ Len(messages) = 3
  /\ messages[1].topic = "gps/data"
  /\ messages[2].topic = "gps/location"
  /\ messages[3].topic = "gps/data"

\* what reading a key that an object does not have gives
Undefined == [t |-> "undefined", n |-> 0, s |-> <<>>, f |-> <<>>]

\* the keys of the options of the model
OptionKeys ==
  {UsernameKey, ClientIdKey, <<"c", "l", "e", "a", "n">>,
   <<"r", "e", "c", "o", "n", "n", "e", "c", "t", "P", "e", "r", "i", "o", "d">>,
   <<"c", "o", "n", "n", "e", "c", "t", "T", "i", "m", "e", "o", "u", "t">>}

\* the defaults of the client options, written out
ExpectedDefault(key) ==
  CASE key = ClientIdKey -> JStr(<<"v", "u", "e">>)
    [] key = <<"c", "l", "e", "a", "n">> -> JBool(TRUE)
    [] key = <<"r", "e", "c", "o", "n", "n", "e", "c", "t", "P", "e", "r", "i", "o", "d">>
         -> JNum(1000)
    [] key = <<"c", "o", "n", "n", "e", "c", "t", "T", "i", "m", "e", "o", "u", "t">>
         -> JNum(10000)
    [] OTHER -> Undefined

C22_DisconnectWithoutHandle ==
  [][(last'.op = "disconnect" /\ client = 0)
       => /\ UNCHANGED <<client, isConnected, isConnecting, error, subscriptions, messages,
                         currentBrokerUrl, currentClientOptions, lib, pending>>
          /\ calls' = <<>>
          /\ armed' = armed \ {connectionTimeout}
          /\ armed' = {}
          /\ connectionTimeout' = 0]_vars

\* disconnect() was called with no handle held, after the acknowledgment of
\* a subscribe request reached a session that had been disconnected: the
\* topic is still in the set
C22_Witness ==
  /\ last.op = "disconnect"
  /\ ~last.pre
  /\ client = 0
  /\ subscriptions = <<"gps/location">>
  /\ calls = <<>>
  /\ armed = {}
  /\ connectionTimeout = 0

\* C23: at most one connect timeout is pending, and when the timeout action
\* sets the timeout error and ends a handle, that handle is the one created
\* by the connect() call that armed the timer.
C23_TimeoutOfOwnAttempt ==
  /\ Cardinality(armed) <= 1
  /\ (last.op = "timeout" /\ last.pre /\ calls # <<>>)
       => (error = "timeout" /\ calls[1].h = last.h)

=============================================================================
